---- MODULE Spec2Model ----
(***************************************************************************)
(* Model of scripts/dedupe-conversation-log.py: dedupe_conversation_log(). *)
(* Text is a sequence of one-character strings; a file is a record with    *)
(* an existence flag and its text.  One action per step of the function:   *)
(* existence check, read+split, one loop iteration per line, join, rename  *)
(* to the backup path, write of the log path, statistics and return.       *)
(***************************************************************************)
EXTENDS Integers, Sequences, FiniteSets, TLC

\* ---------------------------------------------------------------- bounds
MaxLines == 4        \* lines of the initial conversation log
MaxRuns == 2         \* invocations of the script on the same directory
MaxPartial == 1      \* characters on disk when write_text fails part-way

\* ------------------------------------------------------------ characters
NL == "\n"
HexChars == {"a", "b", "c", "d", "e", "f",
             "0", "1", "2", "3", "4", "5", "6", "7", "8", "9"}
Digits == {"0", "1", "2", "3", "4", "5", "6", "7", "8", "9"}
ChatPrefix == <<"#", "#", " ", "C", "h", "a", "t", " ">>
Separator == <<" ", "-", " ">>
SectionPrefix == <<"#", "#", " ">>
DateLen == 10

\* ------------------------------------------------- lines of the test logs
Id1 == <<"a", "1">>
Id2 == <<"d", "4">>
Date1 == <<"2", "0", "2", "4", "-", "0", "1", "-", "0", "1">>
Date2 == <<"2", "0", "2", "4", "-", "0", "1", "-", "0", "2">>
HeaderLine(id, date, title) ==
    ChatPrefix \o id \o Separator \o date \o Separator \o title
LineCatalog ==
    { HeaderLine(Id1, Date1, <<"t">>),
      HeaderLine(Id1, Date1, <<"u">>),
      HeaderLine(Id2, Date2, <<"t">>),
      <<"#", "#", " ", "N">>,
      <<"x">> }
OldBackup == <<"o">>

\* ------------------------------------------------------- str.split / join
FirstNL(s) ==
    IF \E k \in 1..Len(s) : s[k] = NL
    THEN CHOOSE k \in 1..Len(s) : s[k] = NL /\ \A j \in 1..(k - 1) : s[j] # NL
    ELSE 0

RECURSIVE Split(_)
Split(s) ==
    LET k == FirstNL(s)
    IN  IF k = 0 THEN <<s>>
        ELSE <<SubSeq(s, 1, k - 1)>> \o Split(SubSeq(s, k + 1, Len(s)))

\* mutant: every line is terminated by a line break
RECURSIVE Join_Terminated(_)
Join_Terminated(ls) ==
    IF ls = <<>> THEN <<>>
    ELSE ls[1] \o <<NL>> \o Join_Terminated(Tail(ls))

RECURSIVE Join(_)
Join(ls) ==
    IF ls = <<>> THEN <<>>
    ELSE IF Len(ls) = 1 THEN ls[1]
    ELSE ls[1] \o <<NL>> \o Join(Tail(ls))

\* --------------------------------------------------------------- re.match
RECURSIVE RunLength(_, _, _)
RunLength(s, from, class) ==
    IF from <= Len(s) /\ s[from] \in class
    THEN 1 + RunLength(s, from + 1, class)
    ELSE 0

HasAt(s, from, lit) ==
    /\ from + Len(lit) - 1 <= Len(s)
    /\ SubSeq(s, from, from + Len(lit) - 1) = lit

IsDateAt(s, from) ==
    /\ from + DateLen - 1 <= Len(s)
    /\ \A k \in 0..(DateLen - 1) :
          IF k \in {4, 7} THEN s[from + k] = "-" ELSE s[from + k] \in Digits

NoMatch == [matched |-> FALSE, conv_id |-> <<>>, date |-> <<>>, title |-> <<>>]

\* ^## Chat ([a-f0-9]+) - (\d{4}-\d{2}-\d{2}) - (.+)$
ChatMatch(line) ==
    LET idFrom == Len(ChatPrefix) + 1
        n == RunLength(line, idFrom, HexChars)
        dFrom == idFrom + n + Len(Separator)
        tFrom == dFrom + DateLen + Len(Separator)
    IN  IF /\ HasAt(line, 1, ChatPrefix)
           /\ n >= 1
           /\ HasAt(line, idFrom + n, Separator)
           /\ IsDateAt(line, dFrom)
           /\ HasAt(line, dFrom + DateLen, Separator)
           /\ tFrom <= Len(line)
           /\ \A k \in tFrom..Len(line) : line[k] # NL
        THEN [matched |-> TRUE,
              conv_id |-> SubSeq(line, idFrom, idFrom + n - 1),
              date |-> SubSeq(line, dFrom, dFrom + DateLen - 1),
              title |-> SubSeq(line, tFrom, Len(line))]
        ELSE NoMatch

\* mutant: the key is the identifier alone
ConversationKey_IdOnly(conv_id, date) == conv_id

\* f"{conv_id}-{date}"
ConversationKey(conv_id, date) == conv_id \o <<"-">> \o date

\* line.startswith('## ')
StartsWithSection(line) == HasAt(line, 1, SectionPrefix)

\* ------------------------------------------------------------ loop body
\* mutant: only the most recent key is remembered
SeenAdd_OnlyLast(seen, key) == {key}

SeenAdd(seen, key) == seen \cup {key}

\* mutant: only a conversation header ends the skip
EndsSkip_HeaderOnly(skip, line) == skip /\ ChatMatch(line).matched

\* mutant: any line that is no header ends the skip
EndsSkip_AnyLine(skip, line) == skip

EndsSkip(skip, line) == skip /\ StartsWithSection(line)

\* mutant: the line is inserted at the front
Emit_Prepend(filtered, line, skip) ==
    IF ~skip THEN <<line>> \o filtered ELSE filtered

\* mutant: blank lines are not appended
Emit_SkipBlank(filtered, line, skip) ==
    IF ~skip /\ (\E k \in 1..Len(line) : line[k] # " ")
    THEN Append(filtered, line) ELSE filtered

Emit(filtered, line, skip) ==
    IF ~skip THEN Append(filtered, line) ELSE filtered

Msg(text, conv_id, date) == [text |-> text, conv_id |-> conv_id, date |-> date]

\* The scan state st is a record of the loop's local variables.
\* mutant: the duplicate header is dropped but skip_until_next is not set
OnDuplicate_NoSkip(st, m) ==
    [st EXCEPT !.printed = Append(@, Msg("Removing duplicate", m.conv_id, m.date))]

\* if conversation_key in seen_conversations: ... skip_until_next = True; continue
OnDuplicate(st, m) ==
    [st EXCEPT !.skip = TRUE,
               !.printed = Append(@, Msg("Removing duplicate", m.conv_id, m.date))]

\* mutant: skip_until_next is not reset when a new conversation is kept
OnKeep_NoReset(st, m, line) ==
    LET key == ConversationKey(m.conv_id, m.date)
    IN  [st EXCEPT !.seen = SeenAdd(@, key),
                   !.current = key,
                   !.printed = Append(@, Msg("Keeping", m.conv_id, m.date)),
                   !.filtered = Emit(@, line, st.skip)]

\* mutant: the kept header is recorded but not appended
OnKeep_NoAppend(st, m, line) ==
    LET key == ConversationKey(m.conv_id, m.date)
    IN  [st EXCEPT !.seen = SeenAdd(@, key),
                   !.current = key,
                   !.skip = FALSE,
                   !.printed = Append(@, Msg("Keeping", m.conv_id, m.date))]

\* else: ... seen_conversations.add(key); skip_until_next = False; append
OnKeep(st, m, line) ==
    LET key == ConversationKey(m.conv_id, m.date)
    IN  [st EXCEPT !.seen = SeenAdd(@, key),
                   !.current = key,
                   !.skip = FALSE,
                   !.printed = Append(@, Msg("Keeping", m.conv_id, m.date)),
                   !.filtered = Emit(@, line, FALSE)]

\* mutant: the line that ends the skip is itself dropped
OnOther_DropsBoundary(st, line) ==
    [st EXCEPT !.skip = IF EndsSkip(st.skip, line) THEN FALSE ELSE st.skip,
               !.filtered = Emit(@, line, st.skip)]

\* elif skip_until_next and line.startswith('## '): skip_until_next = False
\* if not skip_until_next: filtered_lines.append(line)
OnOther(st, line) ==
    LET skip == IF EndsSkip(st.skip, line) THEN FALSE ELSE st.skip
    IN  [st EXCEPT !.skip = skip,
                   !.filtered = Emit(@, line, skip)]

\* One iteration of "for line in lines".
LoopBody(st, line) ==
    LET m == ChatMatch(line)
    IN  IF m.matched
        THEN IF ConversationKey(m.conv_id, m.date) \in st.seen
             THEN OnDuplicate(st, m)
             ELSE OnKeep(st, m, line)
        ELSE OnOther(st, line)

\* ----------------------------------------------------------------- state
VARIABLES log_file, backup_file,      \* the two paths of the .ai directory
          pc, runs, previous,           \* control point, invocation number,
                                        \* outcome of the previous invocation
          content, lines, i,
          seen_conversations, filtered_lines, current_conversation,
          skip_until_next, dedupe_content, original_lines, final_lines,
          removed_lines, returned, printed,
          emitted                       \* indices of lines whose iteration
                                        \* appended to filtered_lines

fs == <<log_file, backup_file>>
locals == <<content, lines, i, seen_conversations, filtered_lines,
            current_conversation, skip_until_next, dedupe_content, emitted>>
stats == <<original_lines, final_lines, removed_lines, returned>>
vars == <<log_file, backup_file, pc, runs, previous, content, lines, i,
          seen_conversations, filtered_lines, current_conversation,
          skip_until_next, dedupe_content, original_lines, final_lines,
          removed_lines, returned, printed, emitted>>

NoFile == [exists |-> FALSE, text |-> <<>>]
File(text) == [exists |-> TRUE, text |-> text]
None == -1
Finished == {"done", "backup_failed", "write_failed", "notfound"}

RECURSIVE Documents(_)
Documents(n) ==
    IF n = 0 THEN {<<>>}
    ELSE LET shorter == Documents(n - 1)
         IN  shorter \cup
             {Append(d, l) : d \in {x \in shorter : Len(x) = n - 1}, l \in LineCatalog}

InitialLogs == {NoFile} \cup {File(Join(d)) : d \in Documents(MaxLines)}

FreshLocals ==
    /\ content = <<>>
    /\ lines = <<>>
    /\ i = 0
    /\ seen_conversations = {}
    /\ filtered_lines = <<>>
    /\ current_conversation = <<>>
    /\ skip_until_next = FALSE
    /\ dedupe_content = <<>>
    /\ original_lines = None
    /\ final_lines = None
    /\ removed_lines = None
    /\ returned = None
    /\ printed = <<>>
    /\ emitted = {}

Init ==
    /\ log_file \in InitialLogs
    /\ backup_file \in {NoFile, File(OldBackup)}
    /\ pc = "start"
    /\ runs = 1
    /\ previous = [exit |-> "none", removed |-> None]
    /\ FreshLocals

\* --------------------------------------------------------------- actions
\* mutant: the missing log is created empty
NotFound_Touch ==
    /\ pc = "start"
    /\ ~log_file.exists
    /\ log_file' = [exists |-> TRUE, text |-> <<>>]
    /\ printed' = Append(printed, Msg("conversation-log.md not found", <<>>, <<>>))
    /\ pc' = "notfound"
    /\ UNCHANGED <<backup_file, runs, previous, locals, stats>>

\* if not log_file.exists(): print(...); return
NotFound ==
    /\ pc = "start"
    /\ ~log_file.exists
    /\ printed' = Append(printed, Msg("conversation-log.md not found", <<>>, <<>>))
    /\ pc' = "notfound"
    /\ UNCHANGED <<fs, runs, previous, locals, stats>>

\* content = log_file.read_text(); lines = content.split('\n'); locals
ReadLog ==
    /\ pc = "start"
    /\ log_file.exists
    /\ content' = log_file.text
    /\ lines' = Split(log_file.text)
    /\ seen_conversations' = {}
    /\ filtered_lines' = <<>>
    /\ current_conversation' = <<>>
    /\ skip_until_next' = FALSE
    /\ i' = 1
    /\ printed' = Append(printed, Msg("Reading conversation log...", <<>>, <<>>))
    /\ emitted' = {}
    /\ pc' = "scan"
    /\ UNCHANGED <<fs, runs, previous, dedupe_content, stats>>

\* one iteration of the for loop
ScanLine ==
    /\ pc = "scan"
    /\ i <= Len(lines)
    /\ LET st == [seen |-> seen_conversations, filtered |-> filtered_lines,
                  current |-> current_conversation, skip |-> skip_until_next,
                  printed |-> printed]
           nx == LoopBody(st, lines[i])
       IN  /\ seen_conversations' = nx.seen
           /\ filtered_lines' = nx.filtered
           /\ current_conversation' = nx.current
           /\ skip_until_next' = nx.skip
           /\ printed' = nx.printed
           /\ emitted' = IF Len(nx.filtered) > Len(filtered_lines)
                         THEN emitted \cup {i} ELSE emitted
    /\ i' = i + 1
    /\ UNCHANGED <<fs, pc, runs, previous, content, lines, dedupe_content, stats>>

\* dedupe_content = '\n'.join(filtered_lines)
JoinLines ==
    /\ pc = "scan"
    /\ i > Len(lines)
    /\ dedupe_content' = Join(filtered_lines)
    /\ pc' = "backup"
    /\ UNCHANGED <<fs, runs, previous, content, lines, i, seen_conversations,
                   filtered_lines, current_conversation, skip_until_next,
                   emitted, stats, printed>>

\* mutant: the backup is written from the deduplicated text
Backup_WrongContent ==
    /\ pc = "backup"
    /\ backup_file' = [exists |-> TRUE, text |-> dedupe_content]
    /\ log_file' = log_file
    /\ printed' = Append(printed, Msg("Backup created", <<>>, <<>>))
    /\ pc' = "write"
    /\ UNCHANGED <<runs, previous, locals, stats>>

\* log_file.rename(backup_file): replaces an existing backup
Backup ==
    /\ pc = "backup"
    /\ backup_file' = log_file
    /\ log_file' = NoFile
    /\ printed' = Append(printed, Msg("Backup created", <<>>, <<>>))
    /\ pc' = "write"
    /\ UNCHANGED <<runs, previous, locals, stats>>

\* mutant: the failure of the rename is swallowed and the run goes on
BackupFails_Swallowed ==
    /\ pc = "backup"
    /\ pc' = "write"
    /\ UNCHANGED <<fs, runs, previous, locals, stats, printed>>

\* log_file.rename(backup_file) raises OSError: nothing is renamed
BackupFails ==
    /\ pc = "backup"
    /\ pc' = "backup_failed"
    /\ UNCHANGED <<fs, runs, previous, locals, stats, printed>>

\* mutant: the text that was read is written back
WriteLog_Original ==
    /\ pc = "write"
    /\ log_file' = [exists |-> TRUE, text |-> content]
    /\ pc' = "stats"
    /\ UNCHANGED <<backup_file, runs, previous, locals, stats, printed>>

\* log_file.write_text(dedupe_content)
WriteLog ==
    /\ pc = "write"
    /\ log_file' = File(dedupe_content)
    /\ pc' = "stats"
    /\ UNCHANGED <<backup_file, runs, previous, locals, stats, printed>>

\* write_text raises: the open failed (no file), or the file was created
\* and only a proper prefix of the text reached it
WriteFails ==
    /\ pc = "write"
    /\ \/ log_file' = NoFile
       \/ \E n \in 0..MaxPartial :
             /\ n < Len(dedupe_content)
             /\ log_file' = File(SubSeq(dedupe_content, 1, n))
    /\ pc' = "write_failed"
    /\ UNCHANGED <<backup_file, runs, previous, locals, stats, printed>>

\* mutant: removed_lines counts the duplicates reported, not the lines
Statistics_CountsDuplicates ==
    /\ pc = "stats"
    /\ original_lines' = Len(lines)
    /\ final_lines' = Len(filtered_lines)
    /\ removed_lines' = Cardinality({k \in 1..Len(printed) :
                                        printed[k].text = "Removing duplicate"})
    /\ returned' = Cardinality(seen_conversations)
    /\ printed' = Append(printed, Msg("Statistics", <<>>, <<>>))
    /\ pc' = "done"
    /\ UNCHANGED <<fs, runs, previous, locals>>

\* statistics and return len(seen_conversations)
Statistics ==
    /\ pc = "stats"
    /\ original_lines' = Len(lines)
    /\ final_lines' = Len(filtered_lines)
    /\ removed_lines' = Len(lines) - Len(filtered_lines)
    /\ returned' = Cardinality(seen_conversations)
    /\ printed' = Append(printed, Msg("Statistics", <<>>, <<>>))
    /\ pc' = "done"
    /\ UNCHANGED <<fs, runs, previous, locals>>

\* if __name__ == "__main__": the script is invoked again
Invoke ==
    /\ pc \in Finished
    /\ runs < MaxRuns
    /\ runs' = runs + 1
    /\ previous' = [exit |-> pc, removed |-> removed_lines]
    /\ pc' = "start"
    /\ content' = <<>>
    /\ lines' = <<>>
    /\ i' = 0
    /\ seen_conversations' = {}
    /\ filtered_lines' = <<>>
    /\ current_conversation' = <<>>
    /\ skip_until_next' = FALSE
    /\ dedupe_content' = <<>>
    /\ original_lines' = None
    /\ final_lines' = None
    /\ removed_lines' = None
    /\ returned' = None
    /\ printed' = <<>>
    /\ emitted' = {}
    /\ UNCHANGED fs

Next ==
    \/ NotFound
    \/ ReadLog
    \/ ScanLine
    \/ JoinLines
    \/ Backup
    \/ BackupFails
    \/ WriteLog
    \/ WriteFails
    \/ Statistics
    \/ Invoke

Spec == Init /\ [][Next]_vars

\* ------------------------------------------ logs with irregular lines
\* The same program on logs that hold a header-like line failing the
\* pattern ("## Chat XY - 2024-1-1 - t"), an empty line and a blank line.
BadId == <<"X", "Y">>
BadDate == <<"2", "0", "2", "4", "-", "1", "-", "1">>
BadHeader == HeaderLine(BadId, BadDate, <<"t">>)
EdgeCatalog ==
    { HeaderLine(Id1, Date1, <<"t">>),
      HeaderLine(Id1, Date1, <<"u">>),
      BadHeader,
      <<>>,
      <<" ">> }

RECURSIVE EdgeDocuments(_)
EdgeDocuments(n) ==
    IF n = 0 THEN {<<>>}
    ELSE LET shorter == EdgeDocuments(n - 1)
         IN  shorter \cup
             {Append(d, l) : d \in {x \in shorter : Len(x) = n - 1}, l \in EdgeCatalog}

InitEdge ==
    /\ log_file \in {NoFile} \cup {File(Join(d)) : d \in EdgeDocuments(MaxLines)}
    /\ backup_file \in {NoFile, File(OldBackup)}
    /\ pc = "start"
    /\ runs = 1
    /\ previous = [exit |-> "none", removed |-> None]
    /\ FreshLocals

SpecEdge == InitEdge /\ [][Next]_vars

\* ============================================================ properties
\* The match of every input line, computed once per formula.
RECURSIVE MatchAll(_)
MatchAll(ls) ==
    IF ls = <<>> THEN <<>> ELSE <<ChatMatch(Head(ls))>> \o MatchAll(Tail(ls))
Matches == MatchAll(lines)
Scanned == 1..(i - 1)
HeaderIndices(M) == {a \in Scanned : M[a].matched}
SameKey(M, a, b) == M[a].conv_id = M[b].conv_id /\ M[a].date = M[b].date
FirstWithKey(M, a) == ~\E b \in 1..(a - 1) : M[b].matched /\ SameKey(M, a, b)
IsDuplicateHeader(M, a) == M[a].matched /\ ~FirstWithKey(M, a)
IsSection(M, a) == StartsWithSection(lines[a]) /\ ~M[a].matched
NoHeaderIn(M, from, to) == \A j \in from..to : ~M[j].matched

RECURSIVE IsSubseq(_, _)
IsSubseq(a, b) ==
    IF a = <<>> THEN TRUE
    ELSE IF b = <<>> THEN FALSE
    ELSE IF Head(a) = Head(b) THEN IsSubseq(Tail(a), Tail(b))
    ELSE IsSubseq(a, Tail(b))

RECURSIVE PickFrom(_, _, _)
PickFrom(ls, idx, k) ==
    IF k > Len(ls) THEN <<>>
    ELSE (IF k \in idx THEN <<ls[k]>> ELSE <<>>) \o PickFrom(ls, idx, k + 1)

HeadersUnique(ls) ==
    LET M == MatchAll(ls)
    IN  \A a, b \in 1..Len(ls) :
            (a < b /\ M[a].matched /\ M[b].matched) =>
                <<M[a].conv_id, M[a].date>> # <<M[b].conv_id, M[b].date>>

\* C1: the filtered output never holds two header lines with the same
\* (id, date) pair, whatever their titles; this holds of filtered_lines at
\* every point and of the lines written to the log path.
C1_IdentityUniqueness ==
    /\ HeadersUnique(filtered_lines)
    /\ pc \in {"stats", "done"} => HeadersUnique(Split(log_file.text))

\* a finished run that dropped a header whose (id, date) was already kept
\* under a different title
C1_Witness ==
    /\ pc = "done"
    /\ LET M == Matches
       IN  \E a, b \in HeaderIndices(M) :
               /\ a < b
               /\ SameKey(M, a, b)
               /\ M[a].title # M[b].title
               /\ a \in emitted
               /\ b \notin emitted

\* C2: the filtered line sequence is a subsequence of the input line
\* sequence (same lines, same relative order, nothing inserted or changed),
\* in memory at every point and on disk after the run.
C2_Subsequence ==
    /\ IsSubseq(filtered_lines, lines)
    /\ pc \in {"stats", "done"} =>
          IsSubseq(Split(log_file.text), Split(backup_file.text))

\* a finished run that removed something and kept two different lines
C2_Witness ==
    /\ pc = "done"
    /\ Len(filtered_lines) < Len(lines)
    /\ Len(filtered_lines) >= 2
    /\ filtered_lines[1] # filtered_lines[2]

\* C3: a run on the output of a successful first run removes no line and
\* writes back exactly the text it read.
C3_Idempotence ==
    (pc = "done" /\ previous.exit = "done") =>
        /\ filtered_lines = lines
        /\ log_file.text = content
        /\ removed_lines = 0

\* the second of two successful runs, the first of which removed lines
C3_Witness ==
    /\ pc = "done"
    /\ previous.exit = "done"
    /\ previous.removed > 0

\* C4: first occurrence wins.  The first header of each (id, date) in scan
\* order is emitted together with every line up to the next header; every
\* later header with that key is dropped; the output is the emitted lines
\* in input order and the returned count is the number of distinct keys.
C4_FirstOccurrenceWins ==
    LET M == Matches
    IN  /\ filtered_lines = PickFrom(lines, emitted, 1)
        /\ \A a \in HeaderIndices(M) :
              IF FirstWithKey(M, a)
              THEN \A k \in a..(i - 1) : NoHeaderIn(M, a + 1, k) => k \in emitted
              ELSE a \notin emitted
        /\ pc = "done" =>
              returned = Cardinality({<<M[a].conv_id, M[a].date>> : a \in HeaderIndices(M)})

\* Scenario A: two entries of one key with different titles, one entry of
\* another key
C4_Witness ==
    /\ pc = "done"
    /\ lines = << HeaderLine(Id1, Date1, <<"t">>), <<"x">>,
                  HeaderLine(Id1, Date1, <<"u">>),
                  HeaderLine(Id2, Date2, <<"t">>) >>
    /\ filtered_lines = << HeaderLine(Id1, Date1, <<"t">>), <<"x">>,
                           HeaderLine(Id2, Date2, <<"t">>) >>
    /\ returned = 2

EntryToNextHeader(M, a) == {k \in a..(i - 1) : NoHeaderIn(M, a + 1, k)}
EntryToNextSection(a) ==
    {k \in a..(i - 1) : \A j \in (a + 1)..k : ~StartsWithSection(lines[j])}
AllOrNone(span) == span \subseteq emitted \/ span \cap emitted = {}

\* C5 as stated: every entry, taken as a header with the lines up to the
\* next entry header, is emitted whole or removed whole.
C5_Original ==
    pc = "done" =>
        LET M == Matches
        IN  \A a \in HeaderIndices(M) : AllOrNone(EntryToNextHeader(M, a))

\* C5 amended: every entry, taken as a header with the lines up to the next
\* line that starts with '## ', is emitted whole or removed whole.
C5_NoPartialRemoval ==
    LET M == Matches
    IN  \A a \in HeaderIndices(M) : AllOrNone(EntryToNextSection(a))

\* a duplicate entry of a header and a body line removed whole, the section
\* line after it emitted
C5_Witness ==
    /\ pc = "done"
    /\ LET M == Matches
       IN  \E a \in HeaderIndices(M) :
               /\ a + 2 \in Scanned
               /\ EntryToNextSection(a) = {a, a + 1}
               /\ {a, a + 1} \cap emitted = {}
               /\ IsSection(M, a + 2)
               /\ a + 2 \in emitted

\* C6: the log path is written only at the write step, reached after the
\* rename to the backup path succeeded (the backup then holds the text that
\* was read); when the rename fails the log path still holds that text and
\* the run is over.
C6_BackupBeforeOverwrite ==
    /\ [](pc = "backup_failed" => log_file = File(content))
    /\ [][ (log_file' # log_file /\ log_file'.exists) =>
              (pc = "write" /\ backup_file = File(content)
                            /\ backup_file' = backup_file) ]_vars
    /\ [][ pc = "backup_failed" => (pc' = "start" /\ UNCHANGED fs) ]_vars

\* a run after a failed backup found the log untouched, backed it up and
\* only then wrote the deduplicated text
C6_Witness ==
    /\ pc = "stats"
    /\ previous.exit = "backup_failed"
    /\ backup_file = File(content)
    /\ log_file = File(dedupe_content)
    /\ dedupe_content # content

\* C7: from the read on, the text that was read is stored verbatim at the
\* log path or at the backup path.
C7_Recoverability ==
    pc \notin {"start", "notfound"} =>
        (log_file = File(content) \/ backup_file = File(content))

\* a failed write left a truncated log; the backup holds the original
C7_Witness ==
    /\ pc = "write_failed"
    /\ log_file.exists
    /\ log_file.text # content
    /\ Len(filtered_lines) < Len(lines)
    /\ backup_file = File(content)

RECURSIVE Offset(_, _)
Offset(ls, k) == IF k = 1 THEN 1 ELSE Offset(ls, k - 1) + Len(ls[k - 1]) + 1
HoldsLines(text, ls) ==
    /\ Len(ls) >= 1
    /\ Len(text) = Offset(ls, Len(ls)) + Len(ls[Len(ls)]) - 1
    /\ \A k \in 1..Len(ls) :
          /\ SubSeq(text, Offset(ls, k), Offset(ls, k) + Len(ls[k]) - 1) = ls[k]
          /\ k > 1 => text[Offset(ls, k) - 1] = NL

\* C8: after a successful run the log path holds the filtered lines joined
\* by line breaks and the backup path holds the text that was read; for an
\* empty log both are empty.
C8_SuccessfulRun ==
    pc \in {"stats", "done"} =>
        /\ log_file.exists
        /\ HoldsLines(log_file.text, filtered_lines)
        /\ backup_file = File(content)
        /\ content = <<>> => (log_file = File(<<>>) /\ backup_file = File(<<>>))

\* a successful first run that removed lines: the log differs from the text
\* read, the backup equals it
C8_Witness ==
    /\ pc = "done"
    /\ runs = 1
    /\ removed_lines > 0
    /\ Len(filtered_lines) >= 2
    /\ log_file.text # content
    /\ backup_file = File(content)

NotFoundMsg == Msg("conversation-log.md not found", <<>>, <<>>)

\* C9: when the log path does not exist the run prints the condition and
\* ends: neither path changes, nothing is read or scanned.
C9_MissingLog ==
    /\ [][ (pc = "start" /\ ~log_file.exists) =>
              /\ pc' = "notfound"
              /\ printed' = <<NotFoundMsg>>
              /\ UNCHANGED <<fs, locals, stats>> ]_vars
    /\ [](pc = "notfound" =>
              /\ ~log_file.exists
              /\ lines = <<>> /\ i = 0 /\ filtered_lines = <<>>
              /\ returned = None)
    /\ [][ pc = "notfound" => (pc' = "start" /\ UNCHANGED fs) ]_vars

\* a run that found no log and left an existing backup alone
C9_Witness ==
    /\ pc = "notfound"
    /\ ~log_file.exists
    /\ backup_file.exists
    /\ printed = <<NotFoundMsg>>

\* C10: a line that starts with '## ' and is no conversation header, read
\* while skipping, sets skip_until_next to false and is appended; it and the
\* lines after it are emitted up to the next duplicate header.
C10_SkipEndsAtSection ==
    /\ [][ ( /\ pc = "scan" /\ i <= Len(lines) /\ skip_until_next
             /\ StartsWithSection(lines[i]) /\ ~ChatMatch(lines[i]).matched ) =>
              ( /\ ~skip_until_next'
                /\ filtered_lines' = Append(filtered_lines, lines[i]) ) ]_vars
    /\ [](LET M == Matches
          IN  \A a \in Scanned :
                  IsSection(M, a) =>
                      \A k \in a..(i - 1) :
                          (\A j \in (a + 1)..k : ~IsDuplicateHeader(M, j)) => k \in emitted)

\* Scenario C: a duplicate header, then a section line that ends the skip,
\* then a body line, both emitted
C10_Witness ==
    /\ pc = "done"
    /\ LET M == Matches
       IN  \E a \in Scanned :
               /\ a + 2 \in Scanned
               /\ IsDuplicateHeader(M, a)
               /\ a \notin emitted
               /\ IsSection(M, a + 1)
               /\ ~StartsWithSection(lines[a + 2])
               /\ {a + 1, a + 2} \subseteq emitted

\* A header-like line: it opens like a conversation header and fails the
\* pattern.
IsMalformedHeader(line) == HasAt(line, 1, ChatPrefix) /\ ~ChatMatch(line).matched
ScanningLine == pc = "scan" /\ i <= Len(lines)

\* C11 as stated: a malformed header is handled as a body line in every scan
\* state: the Seen Set and the report are unchanged, and it is appended when
\* not skipping, suppressed (the skip going on) when skipping.
C11_Original ==
    [][ (ScanningLine /\ IsMalformedHeader(lines[i])) =>
          /\ seen_conversations' = seen_conversations
          /\ printed' = printed
          /\ skip_until_next' = skip_until_next
          /\ filtered_lines' = IF skip_until_next THEN filtered_lines
                               ELSE Append(filtered_lines, lines[i]) ]_vars

\* C11 amended: a malformed header that starts with '## ' never adds to the
\* Seen Set and is never reported; it is always appended, and read while
\* skipping it ends the skip.
C11_MalformedHeader ==
    [][ (ScanningLine /\ IsMalformedHeader(lines[i])) =>
          /\ seen_conversations' = seen_conversations
          /\ printed' = printed
          /\ skip_until_next' = FALSE
          /\ filtered_lines' = Append(filtered_lines, lines[i])
          /\ pc' = "scan" ]_vars

\* a malformed header read right after a removed duplicate header is
\* emitted, and so is the line after it
C11_Witness ==
    /\ pc = "done"
    /\ \E a \in Scanned :
          /\ a + 2 \in Scanned
          /\ ChatMatch(lines[a]).matched
          /\ a \notin emitted
          /\ IsMalformedHeader(lines[a + 1])
          /\ {a + 1, a + 2} \subseteq emitted
          /\ Cardinality(seen_conversations) = 1

\* C12: for an existing log of zero length the output is empty and every
\* reported count is zero.
C12_EmptyLogCounts ==
    (pc = "done" /\ content = <<>>) =>
        /\ log_file = File(<<>>)
        /\ original_lines = 0
        /\ final_lines = 0
        /\ removed_lines = 0
        /\ returned = 0

\* C13: when no two header lines of the input share (id, date), the output
\* equals the input line for line, nothing is removed, the returned count is
\* the number of header lines and the text written equals the text read.
C13_NoDuplicatesIdentity ==
    (pc = "done" /\ HeadersUnique(lines)) =>
        LET M == Matches
        IN  /\ filtered_lines = lines
            /\ removed_lines = 0
            /\ returned = Cardinality(HeaderIndices(M))
            /\ log_file.text = content

\* a finished run on a log of several lines without any header (Scenario B)
C13_Witness ==
    /\ pc = "done"
    /\ Len(lines) >= 3
    /\ HeaderIndices(Matches) = {}
    /\ \E a \in Scanned : StartsWithSection(lines[a])
    /\ returned = 0
    /\ log_file.text = content

\* C14: once the backup path holds a backup it is not changed: not by the
\* later steps of the run that made it, not by a run that follows a
\* successful run.
C14_BackupNeverMutated ==
    [][ (pc \in {"write", "stats", "done"} \/ previous.exit = "done") =>
            backup_file' = backup_file ]_vars

\* C15: the reported counts satisfy original = final + removed, with
\* original the number of input lines, final the number of emitted lines
\* and removed the number of input lines not emitted.
C15_CountConservation ==
    pc = "done" =>
        /\ original_lines = Len(Split(content))
        /\ final_lines = Len(filtered_lines)
        /\ final_lines = Cardinality(emitted)
        /\ removed_lines = Cardinality((1..Len(lines)) \ emitted)
        /\ removed_lines >= 0
        /\ original_lines = final_lines + removed_lines

\* a finished run that removed two duplicate headers and a line between
C15_Witness ==
    /\ pc = "done"
    /\ removed_lines = 3
    /\ final_lines = 1
    /\ Cardinality({k \in 1..Len(printed) : printed[k].text = "Removing duplicate"}) = 2

\* The last line among the first a lines that starts with '## ', 0 if none.
LastMarker(a) ==
    LET S == {b \in 1..a : StartsWithSection(lines[b])}
    IN  IF S = {} THEN 0 ELSE CHOOSE b \in S : \A c \in S : c <= b
AfterDuplicate(M, a) == LastMarker(a) > 0 /\ IsDuplicateHeader(M, LastMarker(a))

\* C16: skip_until_next is true exactly when the most recent line read that
\* starts with '## ' was a header whose (id, date) had occurred before; a
\* line is removed exactly when the most recent '## ' line up to and
\* including it is such a duplicate header.
C16_SkipFlag ==
    LET M == Matches
    IN  /\ skip_until_next = AfterDuplicate(M, i - 1)
        /\ \A a \in Scanned : (a \notin emitted) = AfterDuplicate(M, a)

\* a scan that has emitted a first entry with its body line and is skipping
\* the body line of the duplicate header that followed
C16_Witness ==
    /\ pc = "scan"
    /\ skip_until_next
    /\ i = 5
    /\ emitted = {1, 2}
    /\ IsDuplicateHeader(Matches, 3)
    /\ ~StartsWithSection(lines[2])
    /\ ~StartsWithSection(lines[4])

\* C17: a line that does not start with '## ' (an empty or blank line
\* included) leaves skip_until_next and the Seen Set unchanged and is
\* appended exactly when skip_until_next is false.
C17_BodyLine ==
    [][ (ScanningLine /\ ~StartsWithSection(lines[i])) =>
          /\ skip_until_next' = skip_until_next
          /\ seen_conversations' = seen_conversations
          /\ filtered_lines' = IF skip_until_next THEN filtered_lines
                               ELSE Append(filtered_lines, lines[i]) ]_vars

\* an empty line was emitted and a blank line after a duplicate header was
\* suppressed
C17_Witness ==
    /\ pc = "done"
    /\ \E a, b \in Scanned :
          /\ lines[a] = <<>> /\ a \in emitted
          /\ lines[b] = <<" ">> /\ b \notin emitted

KeyText(m) == m.conv_id \o <<"-">> \o m.date
KeyPair(m) == <<m.conv_id, m.date>>

\* C18: the Seen Set is the set of keys of the headers read so far, which is
\* the set of keys of the headers emitted so far; within a run it only
\* grows; the returned count is the number of distinct keys of the input's
\* headers and the number of header lines of the output.
C18_SeenSet ==
    /\ [](LET M == Matches
              H == HeaderIndices(M)
          IN  /\ seen_conversations = {KeyText(M[a]) : a \in H}
              /\ seen_conversations = {KeyText(M[a]) : a \in H \cap emitted}
              /\ Cardinality(seen_conversations) = Cardinality({KeyPair(M[a]) : a \in H})
              /\ pc = "done" =>
                    /\ returned = Cardinality({KeyPair(M[a]) : a \in H})
                    /\ returned = Cardinality({k \in 1..Len(filtered_lines) :
                                                  ChatMatch(filtered_lines[k]).matched}))
    /\ [][ pc' # "start" => seen_conversations \subseteq seen_conversations' ]_vars

\* a finished run that met two keys and a repeated header
C18_Witness ==
    /\ pc = "done"
    /\ Cardinality(seen_conversations) = 2
    /\ returned = 2
    /\ Cardinality(HeaderIndices(Matches)) = 3

====
